---------------------------- MODULE Spec2Model ----------------------------
(***************************************************************************)
(* State-machine model of the trading bot of src/bot.py (class Bot).       *)
(*                                                                         *)
(* One step of the model is one iteration of the loop of Bot.check_market: *)
(* one decoded market event is read and handed, in this order, to          *)
(* bond_trading, adr_trading and etf_trading.  The attributes of the Bot   *)
(* object are the variables; the actions it hands to send_action while     *)
(* processing the event are collected, in order, in `sent`.                *)
(***************************************************************************)
EXTENDS Integers, Sequences, FiniteSets, TLC

VARIABLES
    pc,                 \* "start" before bond_initialize, then "loop"; "crashed" after an uncaught exception
    order_id,           \* self.order_id
    open_bonds,         \* self.open_bonds
    adr_queue,          \* self.adr_queue           (deque, maxlen 10)
    open_adrs,          \* self.open_adrs
    open_adr_converts,  \* self.open_adr_converts   (dict: order id -> "BUY" | "SELL")
    adr_count,          \* self.adr_count
    adr_z_count,        \* self.adr_z_count
    adr_price,          \* self.adr_price           (not set by __init__)
    adr_order_price,    \* self.adr_order_price     (not set by __init__)
    etf_queues,         \* self.etf_queues          (dict: component -> deque, maxlen 10)
    etf_prices,         \* self.etf_prices          (dict: component -> average, initially {})
    open_etfs,          \* self.open_etfs
    etf_count,          \* self.etf_count
    ind_count,          \* self.ind_count           ([GS, MS, WFC], 1-based here)
    xlf_price,          \* self.xlf_price           (not set by __init__)
    etf_order_price,    \* self.etf_order_price     (not set by __init__)
    data,               \* the event read by the last iteration of check_market
    sent,               \* the actions handed to send_action while processing `data`, in order
    hit,                \* which collection held data.order_id when `data` was read ("none" if none)
    book,               \* exchange side: order id -> the add/convert last sent under that id, with the size left
    seen,               \* exchange side: symbol -> the prices of all its trades read so far, in order
    cancelled,          \* exchange side: the ids the bot has sent a cancel for
    converted,          \* exchange side: the ids the bot has sent a convert under
    outed,              \* exchange side: the ids of the orders whose out has been read
    connects,           \* number of calls of make_connection so far
    ntrades,            \* number of trade events read so far
    nfills,             \* number of fill events read so far
    nouts               \* number of out events read so far

vars == <<pc, order_id, open_bonds, adr_queue, open_adrs, open_adr_converts,
          adr_count, adr_z_count, adr_price, adr_order_price, etf_queues,
          etf_prices, open_etfs, etf_count, ind_count, xlf_price,
          etf_order_price, data, sent, hit, book, seen, cancelled, converted,
          outed,
          connects, ntrades, nfills, nouts>>

--------------------------------------------------------------------------
(* Program constants *)

\* queue([], 10): capacity of every rolling window
QueueLen == 10
\* self.bond_threshold
bond_threshold == 1
\* the fair value of BOND used by bond_initialize / bond_trading
BondFair == 1000
\* XLF components, in the order of self.ind_count
Components == <<"GS", "MS", "WFC">>
ComponentSet == {"GS", "MS", "WFC"}

\* An attribute that __init__ never assigned (reading it raises AttributeError).
Unset == 0 - 1

EmptyDict == [k \in {} |-> 0]

--------------------------------------------------------------------------
(* Bounds of the model *)

\* Spec: events read, trade events read, fill events read, out events read
MaxEvents == 5
MaxTrades == 3
MaxFills == 2
MaxOuts == 2

\* SpecAdr: VALBZ trades read, largest order id allocated, largest |counter|, out events
MaxAdrTrades == 1
MaxAdrOrderId == 16
MaxAdrPos == 10
MaxAdrOuts == 1

\* SpecEtf: trades read per component, largest order id, largest etf_count,
\* largest |component counter|
MaxEtfTrades == 1
MaxEtfOrderId == 24
MaxEtfPos == 50
MaxIndPos == 9

\* SpecQuote: trade events read, out events read
MaxQuoteTrades == 5
MaxQuoteOuts == 2

\* SpecWindow: GS trades read
MaxWindowTrades == 12


--------------------------------------------------------------------------
(* Helpers *)

Abs(x) == IF x < 0 THEN 0 - x ELSE x

RECURSIVE SumSeq(_)
SumSeq(q) == IF q = <<>> THEN 0 ELSE Head(q) + SumSeq(Tail(q))

\* variant of DequeAppend: a window that never drops its oldest entry
DequeAppendUnbounded(q, price) == Append(q, price)

\* variant of DequeAppend: a full window drops its newest entry, not its oldest
DequeAppendDropNewest(q, price) ==
    IF Len(q) = QueueLen THEN Append(SubSeq(q, 1, QueueLen - 1), price) ELSE Append(q, price)

\* deque.append on a deque of maxlen QueueLen: the oldest entry is dropped when full
DequeAppend(q, price) ==
    IF Len(q) = QueueLen THEN Append(Tail(q), price) ELSE Append(q, price)

\* sum(queue) // len(queue); Python's // on non-negative ints is floor division
Average(q) == SumSeq(q) \div Len(q)

\* (3000 + 2 * GS + 3 * MS + 2 * WFC) // 10
XlfComposite(prices) ==
    (3000 + 2 * prices["GS"] + 3 * prices["MS"] + 2 * prices["WFC"]) \div 10

\* dict[key] = value
DictPut(dict, key, value) ==
    [k \in (DOMAIN dict) \cup {key} |-> IF k = key THEN value ELSE dict[k]]

\* the elements of a finite set of integers in ascending order
RECURSIVE Ascending(_)
Ascending(S) ==
    IF S = {} THEN <<>>
    ELSE LET m == CHOOSE x \in S : \A y \in S : x <= y
         IN  <<m>> \o Ascending(S \ {m})

\* The Bot object as a record (what a handler reads and returns).  `err` is
\* set when a handler raises (an attribute read before it was ever assigned).
Bot ==
    [order_id |-> order_id, open_bonds |-> open_bonds, adr_queue |-> adr_queue,
     open_adrs |-> open_adrs, open_adr_converts |-> open_adr_converts,
     adr_count |-> adr_count, adr_z_count |-> adr_z_count,
     adr_price |-> adr_price, adr_order_price |-> adr_order_price,
     etf_queues |-> etf_queues, etf_prices |-> etf_prices,
     open_etfs |-> open_etfs, etf_count |-> etf_count, ind_count |-> ind_count,
     xlf_price |-> xlf_price, etf_order_price |-> etf_order_price,
     sent |-> <<>>, err |-> FALSE]

\* the dicts handed to send_action
AddAction(id, symbol, dir, price, size) ==
    [type |-> "add", order_id |-> id, symbol |-> symbol, dir |-> dir,
     price |-> price, size |-> size]
ConvertAction(id, symbol, dir, price, size) ==
    [type |-> "convert", order_id |-> id, symbol |-> symbol, dir |-> dir,
     price |-> price, size |-> size]
CancelAction(id) == [type |-> "cancel", order_id |-> id]

\* send_action(action): the action is written to the stream
SendAction(b, action) == [b EXCEPT !.sent = Append(@, action)]

\* self.order_id += 1
NextOrderId(id) == id + 1

\* an exception leaves the handler (and check_market, which catches nothing)
Raise(b) == [b EXCEPT !.err = TRUE]

\* for open_order in <set>: send_action({"type": "cancel", "order_id": open_order})
\* (the iteration order of a set is not part of the program's contract; the
\* model sends the cancels in ascending id order)
RECURSIVE SendCancels(_, _)
SendCancels(b, ids) ==
    IF ids = <<>> THEN b
    ELSE SendCancels(SendAction(b, CancelAction(Head(ids))), Tail(ids))


--------------------------------------------------------------------------
(* Bond market maker: bond_initialize, bond_trading *)

\* send an add under the current order id, register it in open_bonds, advance the id
PlaceBond(b, dir, price, size) ==
    [b EXCEPT !.sent = Append(@, AddAction(b.order_id, "BOND", dir, price, size)),
              !.open_bonds = @ \cup {b.order_id},
              !.order_id = NextOrderId(@)]

bond_initialize(b) ==
    PlaceBond(PlaceBond(b, "BUY", BondFair - bond_threshold, 50),
              "SELL", BondFair + bond_threshold, 50)

\* variant of bond_trading: the order id of a fill is not looked up in open_bonds
bond_trading_any_fill(b, d) ==
    IF d.type = "fill"
    THEN IF d.dir = "BUY"
         THEN PlaceBond(b, "BUY", BondFair - bond_threshold, d.size)
         ELSE PlaceBond(b, "SELL", BondFair + bond_threshold, d.size)
    ELSE IF d.type = "out" /\ d.order_id \in b.open_bonds
    THEN [b EXCEPT !.open_bonds = @ \ {d.order_id}]
    ELSE b

\* variant of bond_trading: the replacement order has the size of the startup orders
bond_trading_full_size(b, d) ==
    IF d.type = "fill" /\ d.order_id \in b.open_bonds
    THEN IF d.dir = "BUY"
         THEN PlaceBond(b, "BUY", BondFair - bond_threshold, 50)
         ELSE IF d.dir = "SELL"
         THEN PlaceBond(b, "SELL", BondFair + bond_threshold, 50)
         ELSE b
    ELSE IF d.type = "out" /\ d.order_id \in b.open_bonds
    THEN [b EXCEPT !.open_bonds = @ \ {d.order_id}]
    ELSE b

bond_trading(b, d) ==
    IF d.type = "fill" /\ d.order_id \in b.open_bonds
    THEN IF d.dir = "BUY"
         THEN PlaceBond(b, "BUY", BondFair - bond_threshold, d.size)
         ELSE IF d.dir = "SELL"
         THEN PlaceBond(b, "SELL", BondFair + bond_threshold, d.size)
         ELSE b
    ELSE IF d.type = "out" /\ d.order_id \in b.open_bonds
    THEN [b EXCEPT !.open_bonds = @ \ {d.order_id}]
    ELSE b

--------------------------------------------------------------------------
(* ADR arbitrage: adr_trading *)

\* send an add under the current order id, register it in open_adrs, advance the id
PlaceAdr(b, symbol, dir, price, size) ==
    [b EXCEPT !.sent = Append(@, AddAction(b.order_id, symbol, dir, price, size)),
              !.open_adrs = @ \cup {b.order_id},
              !.order_id = NextOrderId(@)]

\* the prices of the BUY and of the SELL orders of the ADR module
\* (bot.py lines 140, 158, 186 and lines 146, 166, 178)
AdrBuyPrice(fair) == fair + 10
AdrSellPrice(fair) == fair - 10

\* variant of AdrBand: the band excludes a movement of exactly 5
AdrBandStrict(fair, basis) == Abs(fair - basis) > 5

\* abs(self.adr_price - self.adr_order_price) >= 5
AdrBand(fair, basis) == Abs(fair - basis) >= 5
\* not len(self.open_adrs) or abs(self.adr_price - self.adr_order_price) >= 5
AdrRequoteDue(b) ==
    Cardinality(b.open_adrs) = 0 \/ AdrBand(b.adr_price, b.adr_order_price)

\* lines 139-149: quote VALE on both sides
AdrQuote(b) ==
    PlaceAdr(PlaceAdr(b, "VALE", "BUY", AdrBuyPrice(b.adr_price), 5),
             "VALE", "SELL", AdrSellPrice(b.adr_price), 5)

\* variant of AdrRequote: the cancelled ids are dropped from open_adrs at once
AdrRequoteForget(b) ==
    AdrQuote([SendCancels([b EXCEPT !.adr_order_price = b.adr_price],
                          Ascending(b.open_adrs)) EXCEPT !.open_adrs = {}])

\* lines 133-149: new basis, cancel every open ADR order, quote
AdrRequote(b) ==
    AdrQuote(SendCancels([b EXCEPT !.adr_order_price = b.adr_price],
                         Ascending(b.open_adrs)))

\* lines 132-149, once the new estimate is stored
AdrQuoteBlock(b) ==
    IF Cardinality(b.open_adrs) # 0 /\ b.adr_order_price = Unset
    THEN Raise(b)
    ELSE IF AdrRequoteDue(b) THEN AdrRequote(b) ELSE b

\* lines 129-149
AdrOnTrade(b, d) ==
    AdrQuoteBlock([b EXCEPT !.adr_queue = DequeAppend(@, d.price),
                            !.adr_price = Average(DequeAppend(b.adr_queue, d.price))])

\* lines 152-189: the inventory update and the replenishment / hedge orders
AdrFillUpdate(b, d) ==
    IF d.dir = "BUY"
    THEN IF d.symbol = "VALE"
         THEN PlaceAdr([PlaceAdr(b, "VALE", "BUY", AdrBuyPrice(b.adr_price), d.size)
                           EXCEPT !.adr_count = @ + d.size],
                       "VALBZ", "SELL", AdrSellPrice(b.adr_price), d.size)
         ELSE IF d.symbol = "VALBZ"
         THEN [b EXCEPT !.adr_z_count = @ + d.size]
         ELSE b
    ELSE IF d.dir = "SELL"
    THEN IF d.symbol = "VALE"
         THEN PlaceAdr([PlaceAdr(b, "VALE", "SELL", AdrSellPrice(b.adr_price), d.size)
                           EXCEPT !.adr_count = @ - d.size],
                       "VALBZ", "BUY", AdrBuyPrice(b.adr_price), d.size)
         ELSE b
    ELSE b

\* self.adr_count == 10 and self.adr_z_count == -10   (line 191)
AdrConvertSellDue(b) == b.adr_count = 10 /\ b.adr_z_count = -10
\* self.adr_count == -10 and self.adr_z_count == 10   (line 199)
AdrConvertBuyDue(b) == b.adr_count = -10 /\ b.adr_z_count = 10

\* variant of AdrConvert: the order id is not advanced after the convert
AdrConvertSameId(b, dir, d) ==
    [b EXCEPT !.sent = Append(@, ConvertAction(b.order_id, "VALE", dir, b.adr_price, d.size)),
              !.open_adr_converts = DictPut(@, b.order_id, dir)]

\* lines 193-197 and 201-205
AdrConvert(b, dir, d) ==
    [b EXCEPT !.sent = Append(@, ConvertAction(b.order_id, "VALE", dir, b.adr_price, d.size)),
              !.open_adr_converts = DictPut(@, b.order_id, dir),
              !.order_id = NextOrderId(@)]

\* lines 191-197
AdrConvertSellBlock(b, d) ==
    IF AdrConvertSellDue(b) THEN AdrConvert(b, "SELL", d) ELSE b
\* lines 199-205
AdrConvertBuyBlock(b, d) ==
    IF AdrConvertBuyDue(b) THEN AdrConvert(b, "BUY", d) ELSE b

\* lines 152-205
AdrOnFill(b, d) ==
    IF b.adr_price = Unset THEN Raise(b)
    ELSE AdrConvertBuyBlock(AdrConvertSellBlock(AdrFillUpdate(b, d), d), d)

\* variant of AdrOnConvertFill: the recorded direction is not looked at
AdrOnConvertFillOneWay(b, d) ==
    [b EXCEPT !.adr_count = @ + d.size, !.adr_z_count = @ - d.size]

\* lines 210-215
AdrOnConvertFill(b, d) ==
    IF b.open_adr_converts[d.order_id] = "BUY"
    THEN [b EXCEPT !.adr_count = @ + d.size, !.adr_z_count = @ - d.size]
    ELSE [b EXCEPT !.adr_count = @ - d.size, !.adr_z_count = @ + d.size]

\* line 128: the first if of adr_trading
AdrTradeBlock(b, d) ==
    IF d.type = "trade" /\ d.symbol = "VALBZ" THEN AdrOnTrade(b, d) ELSE b

\* line 151: the second if
AdrFillBlock(b, d) ==
    IF b.err THEN b
    ELSE IF d.type = "fill" /\ d.order_id \in b.open_adrs THEN AdrOnFill(b, d)
    ELSE b

\* variant of AdrConvertFillBlock: an out leaves open_adrs as it is
AdrConvertFillBlockKeepOnOut(b, d) ==
    IF b.err THEN b
    ELSE IF d.type = "fill" /\ d.order_id \in DOMAIN b.open_adr_converts
    THEN AdrOnConvertFill(b, d)
    ELSE b

\* lines 207-218: the third if and its elif
AdrConvertFillBlock(b, d) ==
    IF b.err THEN b
    ELSE IF d.type = "fill" /\ d.order_id \in DOMAIN b.open_adr_converts
    THEN AdrOnConvertFill(b, d)
    ELSE IF d.type = "out" /\ d.order_id \in b.open_adrs
    THEN [b EXCEPT !.open_adrs = @ \ {d.order_id}]
    ELSE b

adr_trading(b, d) ==
    AdrConvertFillBlock(AdrFillBlock(AdrTradeBlock(b, d), d), d)

--------------------------------------------------------------------------
(* ETF arbitrage: etf_trading, hedge_etf *)

\* send an add under the current order id, register it in open_etfs, advance the id
PlaceEtf(b, symbol, dir, price, size) ==
    [b EXCEPT !.sent = Append(@, AddAction(b.order_id, symbol, dir, price, size)),
              !.open_etfs = @ \cup {b.order_id},
              !.order_id = NextOrderId(@)]

\* the prices of the BUY and of the SELL orders on XLF
\* (bot.py lines 283, 299, 344 and lines 289, 319, 326)
EtfBuyPrice(composite) == composite - 25
EtfSellPrice(composite) == composite + 25

\* variant of EtfBand: a move of exactly 10 is still inside the band
EtfBandStrict(composite, basis) == Abs(composite - basis) > 10

\* abs(self.xlf_price - self.etf_order_price) >= 10
EtfBand(composite, basis) == Abs(composite - basis) >= 10
\* not len(self.open_etfs) or abs(self.xlf_price - self.etf_order_price) >= 10
EtfRequoteDue(b) ==
    Cardinality(b.open_etfs) = 0 \/ EtfBand(b.xlf_price, b.etf_order_price)

\* variant of EtfQuote: the quote forgets the basis it was made at
EtfQuoteNoBasis(b) ==
    [PlaceEtf(PlaceEtf(b, "XLF", "BUY", EtfBuyPrice(b.xlf_price), 50),
              "XLF", "SELL", EtfSellPrice(b.xlf_price), 50)
        EXCEPT !.etf_order_price = Unset]

\* lines 282-292: quote XLF on both sides
EtfQuote(b) ==
    PlaceEtf(PlaceEtf(b, "XLF", "BUY", EtfBuyPrice(b.xlf_price), 50),
             "XLF", "SELL", EtfSellPrice(b.xlf_price), 50)

\* variant of EtfRequote: the new quote is sent first, the cancels after it
EtfRequoteQuoteFirst(b) ==
    SendCancels(EtfQuote([b EXCEPT !.etf_order_price = b.xlf_price]),
                Ascending(b.open_etfs))

\* lines 278-292: new basis, cancel every open ETF order, quote
EtfRequote(b) ==
    EtfQuote(SendCancels([b EXCEPT !.etf_order_price = b.xlf_price],
                         Ascending(b.open_etfs)))

\* len(self.etf_prices) == 3
EtfReady(prices) == Cardinality(DOMAIN prices) = 3

\* lines 276-292, once the composite is stored
EtfQuoteBlock(b) ==
    IF Cardinality(b.open_etfs) # 0 /\ b.etf_order_price = Unset
    THEN Raise(b)
    ELSE IF EtfRequoteDue(b) THEN EtfRequote(b) ELSE b

\* variant of EtfCompositeBlock: the composite is computed and quoted before all three components
\* have an estimate, a missing one counting as 0
PriceOrZero(prices, c) == IF c \in DOMAIN prices THEN prices[c] ELSE 0
EtfCompositeBlockEager(b) ==
    EtfQuoteBlock([b EXCEPT !.xlf_price =
        (3000 + 2 * PriceOrZero(b.etf_prices, "GS") + 3 * PriceOrZero(b.etf_prices, "MS")
              + 2 * PriceOrZero(b.etf_prices, "WFC")) \div 10])

\* lines 271-292, once the component's estimate is stored
EtfCompositeBlock(b) ==
    IF EtfReady(b.etf_prices)
    THEN EtfQuoteBlock([b EXCEPT !.xlf_price = XlfComposite(b.etf_prices)])
    ELSE b

\* lines 266-292
EtfOnTrade(b, d) ==
    EtfCompositeBlock(
        [b EXCEPT !.etf_queues[d.symbol] = DequeAppend(@, d.price),
                  !.etf_prices = DictPut(@, d.symbol,
                                         Average(DequeAppend(b.etf_queues[d.symbol], d.price)))])

\* variant of hedge_etf: the hedge prices are not mirrored with the direction
hedge_etf_below(b, oper, fac) ==
    PlaceEtf(PlaceEtf(PlaceEtf(b, "GS", oper, b.etf_prices["GS"] - 30, 2),
                      "MS", oper, b.etf_prices["MS"] - 30, 3),
             "WFC", oper, b.etf_prices["WFC"] - 30, 2)

\* hedge_etf(oper, fac)
hedge_etf(b, oper, fac) ==
    PlaceEtf(PlaceEtf(PlaceEtf(b, "GS", oper, b.etf_prices["GS"] - (30 * fac), 2),
                      "MS", oper, b.etf_prices["MS"] - (30 * fac), 3),
             "WFC", oper, b.etf_prices["WFC"] - (30 * fac), 2)

\* lines 316-317
EtfConvertSellDue(b) ==
    b.etf_count >= 30 /\ b.ind_count[1] >= 6 /\ b.ind_count[2] >= 9 /\ b.ind_count[3] >= 6
\* lines 341-342
EtfConvertBuyDue(b) ==
    b.etf_count <= -30 /\ b.ind_count[1] <= -6 /\ b.ind_count[2] <= -9 /\ b.ind_count[3] <= -6

\* lines 318-320 and 343-345: the convert is sent under the current order id,
\* which is neither advanced nor recorded anywhere
EtfConvert(b, dir, price) ==
    SendAction(b, ConvertAction(b.order_id, "XLF", dir, price, 30))

\* lines 296-311
EtfBuyFillUpdate(b, d) ==
    IF d.symbol = "XLF"
    THEN hedge_etf([PlaceEtf(b, "XLF", "BUY", EtfBuyPrice(b.xlf_price), d.size)
                       EXCEPT !.etf_count = @ + d.size],
                   "SELL", 1)
    ELSE IF d.symbol = "GS"  THEN [b EXCEPT !.ind_count[1] = @ - d.size]
    ELSE IF d.symbol = "MS"  THEN [b EXCEPT !.ind_count[2] = @ - d.size]
    ELSE IF d.symbol = "WFC" THEN [b EXCEPT !.ind_count[3] = @ - d.size]
    ELSE b

\* lines 316-320
EtfConvertSellBlock(b) ==
    IF EtfConvertSellDue(b) THEN EtfConvert(b, "SELL", EtfSellPrice(b.xlf_price)) ELSE b

\* variant of EtfSellFillUpdate: a component SELL fill lowers the counter
EtfSellFillUpdateDown(b, d) ==
    IF d.symbol = "XLF"
    THEN hedge_etf([PlaceEtf(b, "XLF", "SELL", EtfSellPrice(b.xlf_price), d.size)
                       EXCEPT !.etf_count = @ - d.size],
                   "BUY", 0 - 1)
    ELSE IF d.symbol = "GS"  THEN [b EXCEPT !.ind_count[1] = @ - d.size]
    ELSE IF d.symbol = "MS"  THEN [b EXCEPT !.ind_count[2] = @ - d.size]
    ELSE IF d.symbol = "WFC" THEN [b EXCEPT !.ind_count[3] = @ - d.size]
    ELSE b

\* lines 323-338
EtfSellFillUpdate(b, d) ==
    IF d.symbol = "XLF"
    THEN hedge_etf([PlaceEtf(b, "XLF", "SELL", EtfSellPrice(b.xlf_price), d.size)
                       EXCEPT !.etf_count = @ - d.size],
                   "BUY", 0 - 1)
    ELSE IF d.symbol = "GS"  THEN [b EXCEPT !.ind_count[1] = @ + d.size]
    ELSE IF d.symbol = "MS"  THEN [b EXCEPT !.ind_count[2] = @ + d.size]
    ELSE IF d.symbol = "WFC" THEN [b EXCEPT !.ind_count[3] = @ + d.size]
    ELSE b

\* lines 341-345
EtfConvertBuyBlock(b) ==
    IF EtfConvertBuyDue(b) THEN EtfConvert(b, "BUY", EtfBuyPrice(b.xlf_price)) ELSE b

\* lines 295-345
EtfOnFill(b, d) ==
    IF b.xlf_price = Unset \/ ~EtfReady(b.etf_prices) THEN Raise(b)
    ELSE IF d.dir = "BUY"  THEN EtfConvertSellBlock(EtfBuyFillUpdate(b, d))
    ELSE IF d.dir = "SELL" THEN EtfConvertBuyBlock(EtfSellFillUpdate(b, d))
    ELSE b

\* line 265: the first if of etf_trading
EtfTradeBlock(b, d) ==
    IF d.type = "trade" /\ d.symbol \in DOMAIN b.etf_queues
    THEN EtfOnTrade(b, d) ELSE b

\* variant of EtfFillBlock: an out is answered by a fresh quote on XLF
EtfFillBlockRequoteOnOut(b, d) ==
    IF b.err THEN b
    ELSE IF d.type = "fill" /\ d.order_id \in b.open_etfs THEN EtfOnFill(b, d)
    ELSE IF d.type = "out" /\ d.order_id \in b.open_etfs
    THEN EtfQuote([b EXCEPT !.open_etfs = @ \ {d.order_id}])
    ELSE b

\* lines 294-348: the second if and its elif
EtfFillBlock(b, d) ==
    IF b.err THEN b
    ELSE IF d.type = "fill" /\ d.order_id \in b.open_etfs THEN EtfOnFill(b, d)
    ELSE IF d.type = "out" /\ d.order_id \in b.open_etfs
    THEN [b EXCEPT !.open_etfs = @ \ {d.order_id}]
    ELSE b

etf_trading(b, d) == EtfFillBlock(EtfTradeBlock(b, d), d)

--------------------------------------------------------------------------
(* The exchange's side *)

\* the exchange's record of the orders sent: the add / convert last sent
\* under each id, with the size not yet filled
RECURSIVE BookAfter(_, _)
BookAfter(bk, actions) ==
    IF actions = <<>> THEN bk
    ELSE LET a == Head(actions)
         IN  IF a.type \in {"add", "convert"}
             THEN BookAfter(DictPut(bk, a.order_id,
                                    [type |-> a.type, symbol |-> a.symbol,
                                     dir |-> a.dir, size |-> a.size]),
                            Tail(actions))
             ELSE BookAfter(bk, Tail(actions))

\* the exchange's record once it has sent event d: a fill takes its size off
\* the order, an out closes the order
BookOn(bk, d) ==
    IF d.type \in {"fill", "out"} /\ d.order_id \in DOMAIN bk
    THEN [bk EXCEPT ![d.order_id].size = IF d.type = "fill" THEN @ - d.size ELSE 0]
    ELSE bk

\* the ids the exchange has received a cancel for, after `actions`
CancelledAfter(cs, actions) ==
    cs \cup {actions[i].order_id : i \in {j \in 1..Len(actions) : actions[j].type = "cancel"}}

\* the ids the exchange has received a convert under, after `actions`
ConvertedAfter(cs, actions) ==
    cs \cup {actions[i].order_id : i \in {j \in 1..Len(actions) : actions[j].type = "convert"}}

\* the orders of `bk` the exchange has reported closed once it has sent
\* event d (an out for an id it was never sent closes no order)
OutedOn(os, d, bk) ==
    IF d.type = "out" /\ d.order_id \in DOMAIN bk THEN os \cup {d.order_id} ELSE os

\* the trades the exchange has published once it has sent event d
SeenOn(sn, d) ==
    IF d.type = "trade" THEN [sn EXCEPT ![d.symbol] = Append(@, d.price)] ELSE sn

\* which collection of the bot holds the id of a fill / out event
HitOf(d) ==
    IF d.type \notin {"fill", "out"} THEN "none"
    ELSE IF d.order_id \in open_bonds THEN "bond"
    ELSE IF d.order_id \in open_adrs THEN "adr"
    ELSE IF d.order_id \in DOMAIN open_adr_converts THEN "convert"
    ELSE IF d.order_id \in open_etfs THEN "etf"
    ELSE "none"

TradeEvent(symbol, price) == [type |-> "trade", symbol |-> symbol, price |-> price]
FillEvent(id, symbol, dir, size) ==
    [type |-> "fill", order_id |-> id, symbol |-> symbol, dir |-> dir, size |-> size]
OutEvent(id) == [type |-> "out", order_id |-> id]

--------------------------------------------------------------------------
(* The program *)

\* Bot.__init__, lines 16-77: the attributes of a new Bot object
InitBot ==
    /\ order_id = 0
    /\ open_bonds = {}
    /\ adr_queue = <<>>
    /\ open_adrs = {}
    /\ open_adr_converts = EmptyDict
    /\ adr_count = 0
    /\ adr_z_count = 0
    /\ adr_price = Unset
    /\ adr_order_price = Unset
    /\ etf_queues = [c \in ComponentSet |-> <<>>]
    /\ etf_prices = EmptyDict
    /\ open_etfs = {}
    /\ etf_count = 0
    /\ ind_count = <<0, 0, 0>>
    /\ xlf_price = Unset
    /\ etf_order_price = Unset
    /\ data = [type |-> "hello"]
    /\ sent = <<>>
    /\ hit = "none"
    /\ book = EmptyDict
    /\ seen = [c \in {"VALBZ"} \cup ComponentSet |-> <<>>]
    /\ cancelled = {}
    /\ converted = {}
    /\ outed = {}
    /\ ntrades = 0
    /\ nfills = 0
    /\ nouts = 0

\* Bot.__init__ up to the call of test() / launch()
InitConnect ==
    /\ pc = "connect"
    /\ connects = 0
    /\ InitBot

\* Bot.__init__ and test() / launch() up to the call of check_market():
\* the connection is made and the hello exchanged
Init ==
    /\ pc = "start"
    /\ connects = 1
    /\ InitBot

\* test() / launch(), lines 85-88 and 97-99: make_connection either returns,
\* and hello() and check_market() follow, or socket.connect raises and
\* nothing catches it
MakeConnection(ok) ==
    /\ pc = "connect"
    /\ connects' = connects + 1
    /\ pc' = IF ok THEN "start" ELSE "terminated"
    /\ UNCHANGED <<order_id, open_bonds, adr_queue, open_adrs, open_adr_converts,
                   adr_count, adr_z_count, adr_price, adr_order_price,
                   etf_queues, etf_prices, open_etfs, etf_count, ind_count,
                   xlf_price, etf_order_price, data, sent, hit, book, seen,
                   cancelled, converted, outed, ntrades, nfills, nouts>>

\* read_market, line 411: readline raises a socket error (time-out after 5
\* seconds, connection reset); read_market catches JSONDecodeError only, and
\* check_market, test and launch catch nothing
ReadFail ==
    /\ pc = "loop"
    /\ pc' = "terminated"
    /\ UNCHANGED <<order_id, open_bonds, adr_queue, open_adrs, open_adr_converts,
                   adr_count, adr_z_count, adr_price, adr_order_price,
                   etf_queues, etf_prices, open_etfs, etf_count, ind_count,
                   xlf_price, etf_order_price, data, sent, hit, book, seen,
                   cancelled, converted, outed, connects, ntrades, nfills, nouts>>

\* the attributes of the Bot object after a handler returned b; bk is the
\* exchange's record before it receives the actions of b
Assign(b, bk) ==
    /\ order_id' = b.order_id
    /\ open_bonds' = b.open_bonds
    /\ adr_queue' = b.adr_queue
    /\ open_adrs' = b.open_adrs
    /\ open_adr_converts' = b.open_adr_converts
    /\ adr_count' = b.adr_count
    /\ adr_z_count' = b.adr_z_count
    /\ adr_price' = b.adr_price
    /\ adr_order_price' = b.adr_order_price
    /\ etf_queues' = b.etf_queues
    /\ etf_prices' = b.etf_prices
    /\ open_etfs' = b.open_etfs
    /\ etf_count' = b.etf_count
    /\ ind_count' = b.ind_count
    /\ xlf_price' = b.xlf_price
    /\ etf_order_price' = b.etf_order_price
    /\ sent' = b.sent
    /\ book' = BookAfter(bk, b.sent)
    /\ cancelled' = CancelledAfter(cancelled, b.sent)
    /\ converted' = ConvertedAfter(converted, b.sent)

\* check_market, line 116: the two startup bond orders
BondInitialize ==
    /\ pc = "start"
    /\ pc' = "loop"
    /\ Assign(bond_initialize(Bot), book)
    /\ UNCHANGED <<data, hit, seen, outed, connects, ntrades, nfills, nouts>>

\* lines 120 and 121 are reached only if the handler before returned
AdrStage(b, d) == IF b.err THEN b ELSE adr_trading(b, d)
EtfStage(b, d) == IF b.err THEN b ELSE etf_trading(b, d)

\* read_market after a line that json.loads rejects: the except branch reads
\* one more line, drops what it decodes to, and falls off the end of the
\* function; the caller gets None, which has no field at all
NoneData == [none |-> TRUE]

\* data[field] does not raise
Has(d, field) == field \in DOMAIN d

\* line 246, the first statement that subscripts data: data["type"], and
\* data["order_id"] when the type is "fill"
Subscripts(d) == Has(d, "type") /\ (d.type = "fill" => Has(d, "order_id"))

\* line 119: bond_trading raises at line 246 on None and on a missing key
BondStage(b, d) == IF Subscripts(d) THEN bond_trading(b, d) ELSE Raise(b)

\* the three handlers on one event, in the order of lines 119-121
Handle(b, d) == EtfStage(AdrStage(BondStage(b, d), d), d)

\* the state after the iteration that left the Bot object as b
Finish(b, d) ==
    /\ Assign(b, BookOn(book, d))
    /\ pc' = IF b.err THEN "crashed" ELSE "loop"
    /\ data' = d
    /\ seen' = SeenOn(seen, d)
    /\ outed' = OutedOn(outed, d, book)
    /\ connects' = connects
    /\ hit' = HitOf(d)
    /\ ntrades' = IF d.type = "trade" THEN ntrades + 1 ELSE ntrades
    /\ nfills' = IF d.type = "fill" THEN nfills + 1 ELSE nfills
    /\ nouts' = IF d.type = "out" THEN nouts + 1 ELSE nouts

\* check_market, lines 118-121: one iteration of the loop on event d
CheckMarket(d) ==
    /\ pc = "loop"
    /\ Finish(Handle(Bot, d), d)

\* a trade on the exchange
Trade(symbol, price) == CheckMarket(TradeEvent(symbol, price))

\* the exchange fills (part of) what is left of an order it was sent; the
\* fill carries the order's symbol and direction
Fill(id, size) ==
    /\ id \in DOMAIN book
    /\ size <= book[id].size
    /\ CheckMarket(FillEvent(id, book[id].symbol, book[id].dir, size))

\* a fill for an id the bot never sent
StrayFill(id, symbol, dir, size) ==
    /\ id \notin DOMAIN book
    /\ CheckMarket(FillEvent(id, symbol, dir, size))

\* a fill for an order the exchange has already reported closed, carrying
\* the order's symbol and direction
LateFill(id, size) ==
    /\ id \in DOMAIN book \cap outed
    /\ CheckMarket(FillEvent(id, book[id].symbol, book[id].dir, size))

\* the exchange reports an order closed
Out(id) == CheckMarket(OutEvent(id))

\* one iteration of the loop on what read_market returned for input that is
\* not a well-formed event; `lost` are the events read_market consumed
\* without returning them
CheckMarketBad(d, lost) ==
    /\ pc = "loop"
    /\ Assign(Handle(Bot, d), book)
    /\ pc' = IF Handle(Bot, d).err THEN "crashed" ELSE "loop"
    /\ data' = d
    /\ hit' = "none"
    /\ seen' = IF lost = <<>> THEN seen ELSE SeenOn(seen, lost[1])
    /\ UNCHANGED <<outed, connects, ntrades, nfills, nouts>>

\* the exchange's line does not decode as JSON; the line after it is a trade
BadLine(symbol, price) == CheckMarketBad(NoneData, <<TradeEvent(symbol, price)>>)

\* an event without the key "type"
NoType(symbol, price) ==
    CheckMarketBad([symbol |-> symbol, price |-> price], <<>>)

\* a fill without the key "order_id"
NoOrderId(symbol, dir, size) ==
    CheckMarketBad([type |-> "fill", symbol |-> symbol, dir |-> dir, size |-> size], <<>>)

--------------------------------------------------------------------------
(* Environments *)

\* the order id and the position counters are inside the given bounds
Within(maxid, maxpos, maxind) ==
    /\ order_id <= maxid
    /\ Abs(adr_count) <= maxpos /\ Abs(adr_z_count) <= maxpos
    /\ Abs(etf_count) <= maxpos
    /\ \A i \in 1..3 : Abs(ind_count[i]) <= maxind

\* ids a fill or out event may carry: every id allocated so far and the next one
Ids == 0..order_id

\* ids the exchange knows with one of the given symbols
IdsOf(symbols) == {id \in DOMAIN book : book[id].symbol \in symbols}

\* the order is the oldest one of its symbol and side with size left (orders
\* of one symbol and side at one price are filled in the order they were sent)
Oldest(id) ==
    \A j \in DOMAIN book :
        (j < id /\ book[j].symbol = book[id].symbol /\ book[j].dir = book[id].dir)
            => book[j].size = 0

\* prices and sizes the exchange draws from
Prices == [c \in {"VALBZ"} \cup ComponentSet |->
              IF c = "VALBZ" THEN {500, 510} ELSE IF c = "GS" THEN {100}
              ELSE IF c = "MS" THEN {50} ELSE {70}]
Sizes == {5}
AdrPrices == {500}
AdrSizes == {5}
EtfPrices == [c \in ComponentSet |->
                 IF c = "GS" THEN {100} ELSE IF c = "MS" THEN {50} ELSE {70}]
EtfSizes == [c \in {"XLF"} \cup ComponentSet |->
                IF c = "XLF" THEN {10} ELSE IF c = "MS" THEN {3} ELSE {2}]

\* the exchange's events on every instrument: trades, fills of the bot's
\* orders, a fill for an id the bot has not sent, a fill for an order already
\* reported closed, and outs
Next ==
    \/ BondInitialize
    \/ /\ ntrades + nfills + nouts < MaxEvents
       /\ ntrades < MaxTrades
       /\ \E c \in {"VALBZ"} \cup ComponentSet : \E p \in Prices[c] : Trade(c, p)
    \/ /\ ntrades + nfills + nouts < MaxEvents
       /\ nfills < MaxFills
       /\ \/ \E id \in DOMAIN book, size \in Sizes : Fill(id, size)
          \/ StrayFill(order_id, "XLF", "BUY", 10)
          \/ \E id \in outed, size \in Sizes : LateFill(id, size)
    \/ /\ ntrades + nfills + nouts < MaxEvents
       /\ nouts < MaxOuts
       /\ \E id \in Ids : Out(id)

Spec == Init /\ [][Next]_vars

\* events of the ADR pair: VALBZ trades, fills of the orders and converts of
\* the ADR module, outs of its orders
NextAdr ==
    \/ BondInitialize
    \/ /\ Len(adr_queue) < MaxAdrTrades
       /\ \E p \in AdrPrices : Trade("VALBZ", p)
    \/ /\ \E id \in IdsOf({"VALE", "VALBZ"}), size \in AdrSizes : Fill(id, size)
       /\ Within(MaxAdrOrderId, MaxAdrPos, 0)'
    \/ /\ nouts < MaxAdrOuts
       /\ \E id \in IdsOf({"VALE", "VALBZ"}) : Out(id)

SpecAdr == Init /\ [][NextAdr]_vars

\* bounds of the conversion environment: order ids, the long side of the
\* VALE counter, and the short side of both counters
MaxConvId == 27
MaxConvLong == 15
MaxConvShort == 10

\* one VALBZ trade, then fills of the orders and conversions of the ADR
\* module, oldest first, long enough for conversions of both directions
NextConvert ==
    \/ BondInitialize
    \/ /\ Len(adr_queue) < 1
       /\ Trade("VALBZ", 500)
    \/ /\ \E id \in IdsOf({"VALE", "VALBZ"}) :
             /\ Oldest(id)
             /\ Fill(id, 5)
       /\ order_id' <= MaxConvId
       /\ adr_count' <= MaxConvLong /\ adr_count' >= 0 - MaxConvShort
       /\ Abs(adr_z_count') <= MaxConvShort

SpecConvert == Init /\ [][NextConvert]_vars

\* events of the ETF and its components: component trades and fills of the
\* orders of the ETF module, oldest first, that never leave the bot short of XLF
NextEtf ==
    \/ BondInitialize
    \/ \E c \in ComponentSet :
          /\ Len(etf_queues[c]) < MaxEtfTrades
          /\ \E p \in EtfPrices[c] : Trade(c, p)
    \/ /\ \E id \in IdsOf({"XLF"} \cup ComponentSet) :
             /\ Oldest(id)
             /\ \E size \in EtfSizes[book[id].symbol] : Fill(id, size)
       /\ Within(MaxEtfOrderId, MaxEtfPos, MaxIndPos)'
       /\ etf_count' >= 0

SpecEtf == Init /\ [][NextEtf]_vars

\* bounds of the environment of cancels after conversions
MaxRunOrderId == 26
MaxRunPos == 50
MaxRunInd == 9
MaxRunTrades == 2

\* a market that sells: one trade on each component, fills, oldest first,
\* of the bot's bids on XLF and of its SELL hedges, and a second trade of GS
\* at a higher price that makes the ETF module re-quote
NextRun ==
    \/ BondInitialize
    \/ \E c \in {"MS", "WFC"} :
          /\ seen[c] = <<>>
          /\ \E p \in EtfPrices[c] : Trade(c, p)
    \/ /\ Len(seen["GS"]) < MaxRunTrades
       /\ Trade("GS", IF seen["GS"] = <<>> THEN 100 ELSE 200)
    \/ /\ \E id \in IdsOf({"XLF"} \cup ComponentSet) :
             /\ Oldest(id)
             /\ book[id].dir = (IF book[id].symbol = "XLF" THEN "BUY" ELSE "SELL")
             /\ \E size \in EtfSizes[book[id].symbol] : Fill(id, size)
       /\ Within(MaxRunOrderId, MaxRunPos, MaxRunInd)'

SpecRun == Init /\ [][NextRun]_vars

\* bound and fill sizes of the environment of the hedge legs
MaxLegFills == 5
LegSizes == [c \in {"VALE", "VALBZ", "XLF"} \cup ComponentSet |->
                IF c \in {"VALE", "VALBZ"} THEN 5 ELSE IF c = "XLF" THEN 10
                ELSE IF c = "MS" THEN 3 ELSE 2]

\* one trade on VALBZ and on each component, and fills, oldest first, of
\* the orders of the ADR and ETF modules, the hedge legs among them
NextLegs ==
    \/ BondInitialize
    \/ \E c \in {"VALBZ"} \cup ComponentSet :
          /\ seen[c] = <<>>
          /\ \E p \in Prices[c] : Trade(c, p)
    \/ /\ nfills < MaxLegFills
       /\ \E id \in IdsOf({"VALE", "VALBZ", "XLF"} \cup ComponentSet) :
             /\ Oldest(id)
             /\ Fill(id, LegSizes[book[id].symbol])

SpecLegs == Init /\ [][NextLegs]_vars

\* bounds of the environment with malformed input
MaxBadTrades == 2
MaxBadFills == 1

\* trades and fills as in Next, and at any point of the loop a line that is
\* not JSON, an event without a type, or a fill without an order id
NextBad ==
    \/ BondInitialize
    \/ /\ ntrades < MaxBadTrades
       /\ \E c \in {"VALBZ"} \cup ComponentSet : \E p \in Prices[c] : Trade(c, p)
    \/ /\ nfills < MaxBadFills
       /\ \E id \in DOMAIN book, size \in Sizes : Fill(id, size)
    \/ \E c \in {"VALBZ"} \cup ComponentSet : \E p \in Prices[c] : BadLine(c, p)
    \/ \E c \in {"VALBZ"} \cup ComponentSet : \E p \in Prices[c] : NoType(c, p)
    \/ \E size \in Sizes : NoOrderId("BOND", "BUY", size)

SpecBad == Init /\ [][NextBad]_vars

\* bounds of the environment with transport failures
MaxConnTrades == 2
MaxConnFills == 1

\* the program from the call of test() / launch(): the connection is made
\* or refused, and while the loop runs the stream may fail at any read
NextConnect ==
    \/ \E ok \in BOOLEAN : MakeConnection(ok)
    \/ BondInitialize
    \/ /\ ntrades < MaxConnTrades
       /\ \E c \in {"VALBZ"} \cup ComponentSet : \E p \in Prices[c] : Trade(c, p)
    \/ /\ nfills < MaxConnFills
       /\ \E id \in DOMAIN book, size \in Sizes : Fill(id, size)
    \/ ReadFail

SpecConnect == InitConnect /\ [][NextConnect]_vars

\* prices of the quoting environment: the estimates move by less than, by
\* exactly and by more than the bands of the two modules
QuotePrices == [c \in {"VALBZ"} \cup ComponentSet |->
                   IF c = "VALBZ" THEN {500, 508}
                   ELSE IF c = "GS" THEN {100, 200}
                   ELSE IF c = "MS" THEN {50} ELSE {70}]

\* trades on VALBZ and on the XLF components; orders go out, none is filled
NextQuote ==
    \/ BondInitialize
    \/ /\ ntrades < MaxQuoteTrades
       /\ \E c \in {"VALBZ"} \cup ComponentSet : \E p \in QuotePrices[c] : Trade(c, p)
    \/ /\ nouts < MaxQuoteOuts
       /\ \E id \in open_adrs \cup open_etfs : Out(id)

SpecQuote == Init /\ [][NextQuote]_vars

\* bounds of the environment of XLF fills
MaxHedgeTrades == 4
MaxHedgeFills == 2
HedgeSizes == {10, 40}

\* trades that move the estimates of the components, and fills of the
\* orders on XLF
NextHedge ==
    \/ BondInitialize
    \/ /\ ntrades < MaxHedgeTrades
       /\ \E c \in ComponentSet : \E p \in QuotePrices[c] : Trade(c, p)
    \/ /\ nfills < MaxHedgeFills
       /\ \E id \in IdsOf({"XLF"}), size \in HedgeSizes : Fill(id, size)

SpecHedge == Init /\ [][NextHedge]_vars

\* prices of GS in the window environment
WindowPrices == {100, 200}

\* more GS trades than a window holds, one trade of MS and one of WFC
NextWindow ==
    \/ BondInitialize
    \/ /\ Len(seen["GS"]) < MaxWindowTrades
       /\ \E p \in WindowPrices : Trade("GS", p)
    \/ \E c \in {"MS", "WFC"} :
          /\ seen[c] = <<>>
          /\ \E p \in Prices[c] : Trade(c, p)

SpecWindow == Init /\ [][NextWindow]_vars

\* bound and prices of the environment of the four windows
MaxRollTrades == 11
RollPrices == [c \in {"VALBZ"} \cup ComponentSet |->
                  IF c = "VALBZ" THEN {500, 510} ELSE IF c = "GS" THEN {100, 200}
                  ELSE IF c = "MS" THEN {50, 80} ELSE {70, 90}]

\* more trades than a window holds on one of the four instruments
NextRoll ==
    \/ BondInitialize
    \/ \E c \in {"VALBZ"} \cup ComponentSet :
          /\ Len(seen[c]) < MaxRollTrades
          /\ \A o \in ({"VALBZ"} \cup ComponentSet) \ {c} : seen[o] = <<>>
          /\ \E p \in RollPrices[c] : Trade(c, p)

SpecRoll == Init /\ [][NextRoll]_vars

--------------------------------------------------------------------------
(* Reading the actions sent during one iteration *)

IsAdd(a) == a.type = "add"
IsConvert(a) == a.type = "convert"
IsCancel(a) == a.type = "cancel"
IsOrder(a) == a.type \in {"add", "convert"}

Adds(actions) == SelectSeq(actions, IsAdd)
Converts(actions) == SelectSeq(actions, IsConvert)
Cancels(actions) == SelectSeq(actions, IsCancel)
Orders(actions) == SelectSeq(actions, IsOrder)

\* the order ids of a sequence of actions
IdsIn(actions) == {actions[i].order_id : i \in 1..Len(actions)}

--------------------------------------------------------------------------
(* C1 *)

\* C1: every add or convert action sent carries an order id strictly greater
\* than the id of every add / convert action sent before it (those of earlier
\* iterations are the ids of `book`), so no id is used twice.
C1_OrderIdsStrictlyIncrease ==
    [][\A i \in 1..Len(Orders(sent')) :
          /\ \A k \in DOMAIN book : k < Orders(sent')[i].order_id
          /\ \A j \in 1..(i - 1) :
                Orders(sent')[j].order_id < Orders(sent')[i].order_id]_vars

--------------------------------------------------------------------------
(* C2 *)

\* floor of the mean of a non-empty window, as the specification states it
FloorMean(q) == SumSeq(q) \div Len(q)

\* the last min(N, 10) of the N trade prices of a symbol
LastTen(symbol) ==
    SubSeq(seen[symbol],
           IF Len(seen[symbol]) > 10 THEN Len(seen[symbol]) - 9 ELSE 1,
           Len(seen[symbol]))

\* the last iteration read a VALBZ trade and the ADR module quoted
AdrRequoted ==
    data.type = "trade" /\ data.symbol = "VALBZ" /\ Adds(sent) # <<>>

\* C2: whenever the ADR module re-quotes it sends exactly two adds on VALE,
\* BUY at fair - 10 and SELL at fair + 10, size 5 each, fair being the floor
\* of the mean of the last min(N, 10) VALBZ trade prices, and both ids are in
\* open_adrs.
C2_AdrQuoteAroundFair ==
    AdrRequoted =>
        /\ Len(Adds(sent)) = 2
        /\ Adds(sent)[1] = AddAction(Adds(sent)[1].order_id, "VALE", "BUY",
                                     FloorMean(LastTen("VALBZ")) - 10, 5)
        /\ Adds(sent)[2] = AddAction(Adds(sent)[2].order_id, "VALE", "SELL",
                                     FloorMean(LastTen("VALBZ")) + 10, 5)
        /\ Adds(sent)[1].order_id # Adds(sent)[2].order_id
        /\ IdsIn(Adds(sent)) \subseteq open_adrs

--------------------------------------------------------------------------
(* C3 *)

\* the actions of a re-quote: one cancel per id of `live`, then two adds on `symbol`
RequoteShape(actions, live, symbol) ==
    /\ Len(actions) = Cardinality(live) + 2
    /\ IdsIn(Cancels(actions)) = live
    /\ Len(Adds(actions)) = 2
    /\ \A i \in 1..2 : Adds(actions)[i].symbol = symbol

\* C3: on a VALBZ trade the ADR module re-quotes iff open_adrs is empty or the
\* new fair value is at least 5 away from the basis of the live quotes; on a
\* trade of a component with all three estimates present the ETF module
\* re-quotes iff open_etfs is empty or the composite is at least 10 away from
\* its basis; otherwise no cancel and no add is sent.
C3_RequoteIffOutsideBand ==
    [][/\ (data'.type = "trade" /\ data'.symbol = "VALBZ") =>
             IF open_adrs = {} \/ Abs(adr_price' - adr_order_price) >= 5
             THEN RequoteShape(sent', open_adrs, "VALE")
             ELSE sent' = <<>>
       /\ (data'.type = "trade" /\ data'.symbol \in ComponentSet
             /\ DOMAIN etf_prices' = ComponentSet) =>
             IF open_etfs = {} \/ Abs(xlf_price' - etf_order_price) >= 10
             THEN RequoteShape(sent', open_etfs, "XLF")
             ELSE sent' = <<>>]_vars

\* a VALBZ trade moved the estimate off the basis, inside the band, with
\* quotes live: nothing was sent
C3_Witness ==
    /\ data.type = "trade" /\ data.symbol = "VALBZ"
    /\ open_adrs # {}
    /\ adr_price # adr_order_price
    /\ sent = <<>>

--------------------------------------------------------------------------
(* C4 *)

\* what a fill adds to the position in `symbol`
SignedFill(d, symbol) ==
    IF d.symbol # symbol THEN 0
    ELSE IF d.dir = "BUY" THEN d.size ELSE 0 - d.size

\* C4: every fill on an id tracked in open_adrs changes adr_count by exactly
\* its signed size if it is a VALE fill and adr_z_count by exactly its signed
\* size if it is a VALBZ fill (so the counters are the signed sums of the fills).
C4_AdrCountersAreSignedSums ==
    [][(data'.type = "fill" /\ data'.order_id \in open_adrs) =>
          /\ adr_count' = adr_count + SignedFill(data', "VALE")
          /\ adr_z_count' = adr_z_count + SignedFill(data', "VALBZ")]_vars

--------------------------------------------------------------------------
(* C5, C6 *)

\* the converts on VALE among the actions
AdrConverts(actions) == SelectSeq(Converts(actions), LAMBDA a : a.symbol = "VALE")

AdrConvertStates == {<<10, 0 - 10>>, <<0 - 10, 10>>}

\* C5: an ADR convert is sent exactly by the events whose inventory update
\* brings (adr_count, adr_z_count) into (10,-10) or (-10,10).
C5_ConvertIffPairReached ==
    [][(AdrConverts(sent') # <<>>) <=>
          /\ <<adr_count', adr_z_count'>> \in AdrConvertStates
          /\ <<adr_count', adr_z_count'>> # <<adr_count, adr_z_count>>]_vars

\* C6: every ADR convert is for VALE with size 10, SELL at (10,-10) and BUY at
\* (-10,10), one per firing, its id recorded in open_adr_converts with its direction.
C6_ConvertShape ==
    AdrConverts(sent) # <<>> =>
        /\ Len(AdrConverts(sent)) = 1
        /\ AdrConverts(sent)[1].size = 10
        /\ AdrConverts(sent)[1].dir =
              (IF <<adr_count, adr_z_count>> = <<10, 0 - 10>> THEN "SELL" ELSE "BUY")
        /\ <<adr_count, adr_z_count>> \in AdrConvertStates
        /\ AdrConverts(sent)[1].order_id \in DOMAIN open_adr_converts
        /\ open_adr_converts[AdrConverts(sent)[1].order_id] = AdrConverts(sent)[1].dir

--------------------------------------------------------------------------
(* C7 *)

EtfConverts(actions) == SelectSeq(Converts(actions), LAMBDA a : a.symbol = "XLF")

\* C7: a fill on an id tracked in open_etfs sends exactly one XLF convert of
\* size 30 iff after the fill's inventory update etf_count >= 30 and the
\* component counters are >= 6, 9, 6 (convert SELL) or all four are
\* <= -30, -6, -9, -6 (convert BUY), whatever the fill; otherwise none.
C7_EtfConvertIffThresholds ==
    [][(data'.type = "fill" /\ data'.order_id \in open_etfs) =>
          IF etf_count' >= 30 /\ ind_count'[1] >= 6 /\ ind_count'[2] >= 9 /\ ind_count'[3] >= 6
          THEN /\ Len(EtfConverts(sent')) = 1
               /\ EtfConverts(sent')[1].dir = "SELL" /\ EtfConverts(sent')[1].size = 30
          ELSE IF etf_count' <= -30 /\ ind_count'[1] <= -6 /\ ind_count'[2] <= -9
                     /\ ind_count'[3] <= -6
          THEN /\ Len(EtfConverts(sent')) = 1
               /\ EtfConverts(sent')[1].dir = "BUY" /\ EtfConverts(sent')[1].size = 30
          ELSE EtfConverts(sent') = <<>>]_vars

--------------------------------------------------------------------------
(* C8 *)

\* the state of the engine: every attribute of the Bot object the handlers use
engine == <<order_id, open_bonds, adr_queue, open_adrs, open_adr_converts,
            adr_count, adr_z_count, adr_price, adr_order_price, etf_queues,
            etf_prices, open_etfs, etf_count, ind_count, xlf_price,
            etf_order_price>>

\* the id of a fill / out event is in none of the four collections
UnknownId(d) ==
    /\ d.type \in {"fill", "out"}
    /\ d.order_id \notin open_bonds \cup open_adrs \cup open_etfs
                             \cup DOMAIN open_adr_converts

\* C8: a fill or out event whose order id is in none of open_bonds, open_adrs,
\* open_etfs and open_adr_converts leaves the whole engine state unchanged and
\* sends nothing.
C8_UnknownIdIsNoOp ==
    [][UnknownId(data') => (UNCHANGED engine /\ sent' = <<>> /\ pc' = "loop")]_vars

\* an out event was read for an id the bot had sent and that an earlier out
\* had already removed
C8_Witness ==
    /\ data.type = "out" /\ hit = "none"
    /\ data.order_id \in DOMAIN book
    /\ nouts >= 2
    /\ sent = <<>>

--------------------------------------------------------------------------
(* C9 *)

\* ids of the orders of the ETF module
EtfOrderIds == IdsOf({"XLF"} \cup ComponentSet)

\* C9: as long as one of GS, MS, WFC has had no trade, no add on XLF and no
\* cancel of an ETF order is sent, no ETF order is open and no composite
\* price exists.
C9_NoEtfQuoteBeforeReady ==
    (\E c \in ComponentSet : etf_queues[c] = <<>>) =>
        /\ \A i \in 1..Len(sent) :
              /\ ~(sent[i].type = "add" /\ sent[i].symbol = "XLF")
              /\ ~(sent[i].type = "cancel" /\ sent[i].order_id \in EtfOrderIds \cup open_etfs)
        /\ open_etfs = {}
        /\ xlf_price = Unset

\* two components have traded, the third has not, and the trade just read
\* was a component's: nothing was sent
C9_Witness ==
    /\ Cardinality({c \in ComponentSet : etf_queues[c] # <<>>}) = 2
    /\ data.type = "trade" /\ data.symbol \in ComponentSet
    /\ sent = <<>>

--------------------------------------------------------------------------
(* C10 *)

\* the last iteration read a component trade and the ETF module quoted
EtfRequoted ==
    data.type = "trade" /\ data.symbol \in ComponentSet /\ Adds(sent) # <<>>

\* the composite of the specification over the windows of the three components
SpecComposite ==
    (3000 + 2 * FloorMean(LastTen("GS")) + 3 * FloorMean(LastTen("MS"))
          + 2 * FloorMean(LastTen("WFC"))) \div 10

\* C10: whenever the ETF module re-quotes it sends BUY XLF at composite - 25
\* and SELL XLF at composite + 25, size 50 each, the composite being
\* (3000 + 2*GS + 3*MS + 2*WFC) // 10 over the floor averages of the
\* components' windows, and both ids are in open_etfs.
C10_EtfQuoteAroundComposite ==
    EtfRequoted =>
        /\ Len(Adds(sent)) = 2
        /\ Adds(sent)[1] = AddAction(Adds(sent)[1].order_id, "XLF", "BUY",
                                     SpecComposite - 25, 50)
        /\ Adds(sent)[2] = AddAction(Adds(sent)[2].order_id, "XLF", "SELL",
                                     SpecComposite + 25, 50)
        /\ Adds(sent)[1].order_id # Adds(sent)[2].order_id
        /\ IdsIn(Adds(sent)) \subseteq open_etfs

\* a GS trade made the ETF module re-quote after more GS trades than the
\* window holds, a dropped price making the window's mean differ from the
\* mean of all the GS trades
C10_Witness ==
    /\ EtfRequoted
    /\ data.symbol = "GS"
    /\ Len(seen["GS"]) > 10
    /\ FloorMean(LastTen("GS")) # FloorMean(seen["GS"])
    /\ Adds(sent)[1].price = SpecComposite - 25

--------------------------------------------------------------------------
(* C11 *)

\* the adds on BOND among the actions
BondAdds(actions) == SelectSeq(Adds(actions), LAMBDA a : a.symbol = "BOND")

\* C11: at startup, before any event is read, exactly one BUY BOND at 999 and
\* one SELL BOND at 1001 are sent, 50 each; afterwards a fill of size s on an
\* id of open_bonds sends exactly one BOND add, on the side of the fill, at 999
\* for BUY and 1001 for SELL, of size s, registered in open_bonds; no other
\* event sends a BOND add.
C11_BondQuotes ==
    [][IF pc = "start"
       THEN /\ data = [type |-> "hello"]
            /\ sent' = <<AddAction(order_id, "BOND", "BUY", 999, 50),
                         AddAction(order_id + 1, "BOND", "SELL", 1001, 50)>>
            /\ open_bonds' = {order_id, order_id + 1}
       ELSE IF data'.type = "fill" /\ data'.order_id \in open_bonds
       THEN /\ Len(BondAdds(sent')) = 1
            /\ BondAdds(sent')[1].dir = data'.dir
            /\ BondAdds(sent')[1].price = (IF data'.dir = "BUY" THEN 999 ELSE 1001)
            /\ BondAdds(sent')[1].size = data'.size
            /\ BondAdds(sent')[1].order_id \in open_bonds' \ open_bonds
       ELSE BondAdds(sent') = <<>>]_vars

\* a fill of a replacement order on the SELL side was answered by one more
\* SELL BOND at 1001 of the fill's size
C11_Witness ==
    /\ data.type = "fill" /\ hit = "bond"
    /\ data.dir = "SELL" /\ data.order_id >= 2
    /\ sent = <<AddAction(sent[1].order_id, "BOND", "SELL", 1001, data.size)>>

--------------------------------------------------------------------------
(* C12 *)

\* the ids that one step removes from the three open sets
Removed ==
    (open_bonds \ open_bonds') \cup (open_adrs \ open_adrs') \cup (open_etfs \ open_etfs')

\* C12: an id leaves open_bonds, open_adrs or open_etfs only in the iteration
\* that reads an out event for that id; fills, cancels sent and re-quotes
\* remove nothing.
C12_RemovedOnlyOnOut ==
    [][\A id \in Removed : data'.type = "out" /\ data'.order_id = id]_vars

\* a fill was read for an order of open_adrs that a re-quote had cancelled:
\* the id and the other cancelled ids are still in the set
C12_Witness ==
    /\ data.type = "fill" /\ hit = "adr"
    /\ data.order_id \in cancelled
    /\ cancelled # {} /\ cancelled \ outed \subseteq open_adrs
    /\ sent # <<>>

--------------------------------------------------------------------------
(* C13 *)

\* everything of the engine but the three open sets
besides_open_sets ==
    <<order_id, adr_queue, open_adr_converts, adr_count, adr_z_count, adr_price,
      adr_order_price, etf_queues, etf_prices, etf_count, ind_count, xlf_price,
      etf_order_price>>

\* C13: the iteration that reads an out event sends no action and changes no
\* position counter; all it can do is remove the event's id from the one open
\* set that holds it.
C13_OutOnlyRemoves ==
    [][data'.type = "out" =>
          /\ sent' = <<>>
          /\ pc' = "loop"
          /\ UNCHANGED besides_open_sets
          /\ open_bonds' = open_bonds \ {data'.order_id}
          /\ open_adrs' = open_adrs \ {data'.order_id}
          /\ open_etfs' = open_etfs \ {data'.order_id}
          /\ Cardinality({S \in {open_bonds, open_adrs, open_etfs} :
                             data'.order_id \in S}) <= 1]_vars

\* an out was read for an order of open_etfs while the bot held a position
\* in XLF: the id left the set and nothing was sent
C13_Witness ==
    /\ data.type = "out" /\ hit = "etf"
    /\ etf_count # 0
    /\ data.order_id \notin open_etfs
    /\ sent = <<>>

--------------------------------------------------------------------------
(* C14 *)

\* the attributes of the engine other than the two ADR position counters
besides_adr_counts ==
    <<order_id, open_bonds, adr_queue, open_adrs, open_adr_converts,
      adr_price, adr_order_price, etf_queues, etf_prices, open_etfs,
      etf_count, ind_count, xlf_price, etf_order_price>>

\* C14: a fill of size s on an id recorded in open_adr_converts moves
\* (adr_count, adr_z_count) by (+s, -s) when the recorded direction is BUY
\* and by (-s, +s) when it is SELL; nothing else of the engine changes and
\* nothing is sent
C14_ConvertFillMovesPair ==
    [][(data'.type = "fill" /\ data'.order_id \in DOMAIN open_adr_converts)
          => /\ IF open_adr_converts[data'.order_id] = "BUY"
                THEN /\ adr_count' = adr_count + data'.size
                     /\ adr_z_count' = adr_z_count - data'.size
                ELSE /\ open_adr_converts[data'.order_id] = "SELL"
                     /\ adr_count' = adr_count - data'.size
                     /\ adr_z_count' = adr_z_count + data'.size
             /\ UNCHANGED besides_adr_counts
             /\ sent' = <<>>
             /\ pc' = "loop"]_vars

\* a conversion recorded as SELL has just been filled, after one recorded
\* as BUY had been sent too
C14_Witness ==
    /\ data.type = "fill"
    /\ hit = "convert"
    /\ data.size = 5
    /\ open_adr_converts[data.order_id] = "SELL"
    /\ \E id \in DOMAIN open_adr_converts : open_adr_converts[id] = "BUY"
    /\ sent = <<>>

--------------------------------------------------------------------------
(* C15 *)

\* what the last iteration read is not a well-formed event: a line that did
\* not decode, or an event lacking a key the first branch reads
Malformed(d) == ~Subscripts(d)

\* C15: input that does not decode as JSON, or an event lacking a field read
\* by the branch being evaluated, is skipped: the loop goes on (no error
\* state), the engine state is unchanged and nothing is sent
C15_BadInputSkipped ==
    [][Malformed(data') => /\ pc' = "loop"
                           /\ UNCHANGED engine
                           /\ sent' = <<>>]_vars

--------------------------------------------------------------------------
(* C16 *)

\* C16: a transport failure is answered by exactly one reconnection attempt,
\* and only a second consecutive failure terminates the process: the process
\* terminates only when a connection attempt that is not the first one fails
C16_OneReconnection ==
    [][pc' = "terminated" => pc = "connect" /\ connects' = 2]_vars

--------------------------------------------------------------------------
(* C17 *)

\* the fields of an add action other than its id
IsAddOf(a, symbol, dir, price, size) ==
    /\ a.type = "add"
    /\ a.symbol = symbol
    /\ a.dir = dir
    /\ a.price = price
    /\ a.size = size

Opposite(dir) == IF dir = "BUY" THEN "SELL" ELSE "BUY"

\* the quote price of a side of the ADR module around the fair value:
\* BUY at fair-10, SELL at fair+10
AdrSidePrice(dir, fair) == IF dir = "BUY" THEN fair - 10 ELSE fair + 10

\* C17: a fill of size s on a tracked VALE order sends exactly two adds, both
\* registered in open_adrs: a VALE order in the fill's direction at that
\* side's quote price (BUY at fair-10, SELL at fair+10) with size s, and a
\* VALBZ order in the opposite direction with size s (SELL at fair-10 after
\* a BUY fill, BUY at fair+10 after a SELL fill); adr_count moves by +s for
\* BUY and by -s for SELL
C17_ValeFillReplenishAndHedge ==
    [][(data'.type = "fill" /\ data'.order_id \in open_adrs /\ data'.symbol = "VALE")
          => /\ Len(Adds(sent')) = 2
             /\ \E i, j \in 1..2 :
                   /\ i # j
                   /\ IsAddOf(Adds(sent')[i], "VALE", data'.dir,
                              AdrSidePrice(data'.dir, adr_price'), data'.size)
                   /\ IsAddOf(Adds(sent')[j], "VALBZ", Opposite(data'.dir),
                              AdrSidePrice(data'.dir, adr_price'), data'.size)
             /\ IdsIn(Adds(sent')) \subseteq open_adrs' \ open_adrs
             /\ adr_count' = adr_count + (IF data'.dir = "BUY" THEN data'.size
                                          ELSE 0 - data'.size)]_vars

--------------------------------------------------------------------------
(* C18 *)

\* the offset of an order's price from the fair value: below it for a BUY
\* of XLF and a SELL hedge, above it for a SELL of XLF and a BUY hedge
Skewed(fair, dir, offset) == IF dir = "BUY" THEN fair - offset ELSE fair + offset

\* C18: a fill of size s on a tracked XLF order sends four adds, all
\* registered in open_etfs: one on XLF in the fill's direction with size s,
\* at composite-25 for BUY and composite+25 for SELL, and three hedges in the
\* opposite direction on GS (size 2), MS (size 3) and WFC (size 2), each at
\* the component's current fair value minus 30 after a BUY fill and plus 30
\* after a SELL fill; etf_count moves by +s for BUY and by -s for SELL
C18_XlfFillReplenishAndHedge ==
    [][(data'.type = "fill" /\ data'.order_id \in open_etfs /\ data'.symbol = "XLF")
          => /\ Len(Adds(sent')) = 4
             /\ \E i \in 1..4 :
                   IsAddOf(Adds(sent')[i], "XLF", data'.dir,
                           Skewed(xlf_price', data'.dir, 25), data'.size)
             /\ \E i \in 1..4 :
                   IsAddOf(Adds(sent')[i], "GS", Opposite(data'.dir),
                           Skewed(etf_prices'["GS"], data'.dir, 30), 2)
             /\ \E i \in 1..4 :
                   IsAddOf(Adds(sent')[i], "MS", Opposite(data'.dir),
                           Skewed(etf_prices'["MS"], data'.dir, 30), 3)
             /\ \E i \in 1..4 :
                   IsAddOf(Adds(sent')[i], "WFC", Opposite(data'.dir),
                           Skewed(etf_prices'["WFC"], data'.dir, 30), 2)
             /\ Cardinality(IdsIn(Adds(sent'))) = 4
             /\ IdsIn(Adds(sent')) \subseteq open_etfs' \ open_etfs
             /\ etf_count' = etf_count + (IF data'.dir = "BUY" THEN data'.size
                                          ELSE 0 - data'.size)]_vars

\* a SELL of XLF has just been filled after the estimate of GS had moved to
\* 150: the hedges are BUY orders at 180, 80 and 100
C18_Witness ==
    /\ data.type = "fill"
    /\ hit = "etf"
    /\ data.symbol = "XLF"
    /\ data.dir = "SELL"
    /\ data.size = 40
    /\ etf_prices["GS"] = 150
    /\ etf_count = 0 - 40
    /\ Len(sent) = 4
    /\ IsAddOf(sent[2], "GS", "BUY", 180, 2)
    /\ IsAddOf(sent[3], "MS", "BUY", 80, 3)
    /\ IsAddOf(sent[4], "WFC", "BUY", 100, 2)

--------------------------------------------------------------------------
(* C19 *)

\* the open set of the module that quotes on trades of the given symbol
OpenSetOf(symbol) == IF symbol = "VALBZ" THEN open_adrs ELSE open_etfs

\* C19: when the ADR or the ETF module re-quotes, the actions sent are one
\* cancel for every id that was in the module's open set and for no other
\* id, followed by the two adds of the new quote, and the cancelled ids are
\* still in the set afterwards
C19_RequoteCancelsOpenSet ==
    [][(data'.type = "trade" /\ Adds(sent') # <<>>)
          => /\ Len(Cancels(sent')) = Cardinality(OpenSetOf(data'.symbol))
             /\ IdsIn(Cancels(sent')) = OpenSetOf(data'.symbol)
             /\ Len(sent') = Len(Cancels(sent')) + 2
             /\ \A i \in 1..Len(sent') :
                   sent'[i].type = IF i <= Len(Cancels(sent')) THEN "cancel" ELSE "add"
             /\ OpenSetOf(data'.symbol) \subseteq
                   (IF data'.symbol = "VALBZ" THEN open_adrs' ELSE open_etfs')
             /\ IdsIn(Cancels(sent')) \subseteq cancelled']_vars

\* the ETF module has just re-quoted with one id left in its open set, after
\* the out of the other one: one cancel, then the two adds
C19_Witness ==
    /\ EtfRequoted
    /\ Len(Cancels(sent)) = 1
    /\ Len(sent) = 3
    /\ sent[1].type = "cancel"
    /\ Cardinality(open_etfs) = 3
    /\ IdsIn(Cancels(sent)) \subseteq open_etfs
    /\ outed \cap IdsIn(Cancels(sent)) = {}
    /\ outed # {}

--------------------------------------------------------------------------
(* C20 *)

\* the size of a fill, signed by its direction
Signed(d) == IF d.dir = "BUY" THEN d.size ELSE 0 - d.size

\* C20: a fill for an order whose cancel has been sent is handled without
\* failure whatever the order of fill and out.  Before the out the id is
\* still tracked and the fill is an ordinary one: a fill on VALE or XLF is
\* answered by a replenishment of the fill's size on the same side and moves
\* the position counter by the signed size.  After the out the fill is a
\* no-op: nothing is sent and the engine state is unchanged.
C20_CancelFillOutRace ==
    [][(data'.type = "fill" /\ data'.order_id \in cancelled)
          => /\ pc' = "loop"
             /\ IF data'.order_id \in outed
                THEN sent' = <<>> /\ UNCHANGED engine
                ELSE /\ data'.order_id \in (open_adrs \cup open_etfs)
                     /\ data'.order_id \in (open_adrs' \cup open_etfs')
                     /\ data'.symbol \in {"VALE", "XLF"} =>
                           /\ \E i \in 1..Len(Adds(sent')) :
                                 /\ Adds(sent')[i].symbol = data'.symbol
                                 /\ Adds(sent')[i].dir = data'.dir
                                 /\ Adds(sent')[i].size = data'.size
                           /\ IF data'.symbol = "VALE"
                              THEN adr_count' = adr_count + Signed(data')
                              ELSE etf_count' = etf_count + Signed(data')]_vars

\* a fill was read for a VALE order after its cancel had been sent and its
\* out had been processed: nothing was sent in answer, and the position is
\* still flat
C20_Witness ==
    /\ data.type = "fill"
    /\ data.symbol = "VALE"
    /\ data.order_id \in cancelled \cap outed
    /\ hit = "none"
    /\ data.order_id \notin open_adrs
    /\ sent = <<>>
    /\ adr_count = 0
    /\ pc = "loop"

--------------------------------------------------------------------------
(* C21 *)

\* the index of a component in ind_count
IndexOf(c) == IF c = "GS" THEN 1 ELSE IF c = "MS" THEN 2 ELSE 3

\* the last event is a fill of a tracked hedge leg: VALBZ in open_adrs, or a
\* component in open_etfs
LegFill(d) ==
    /\ d.type = "fill"
    /\ \/ d.symbol = "VALBZ" /\ d.order_id \in open_adrs
       \/ d.symbol \in ComponentSet /\ d.order_id \in open_etfs

\* C21: a fill on a tracked hedge leg sends no add and no cancel, changes
\* none of the open sets, and changes at most the counter of the filled
\* instrument: a VALBZ fill leaves adr_count, etf_count and ind_count as
\* they are, and a GS / MS / WFC fill of size s moves that component's
\* counter by -s (BUY) or +s (SELL) and leaves adr_count, adr_z_count,
\* etf_count and the other two component counters as they are
C21_LegFillOnlyCounts ==
    [][LegFill(data')
          => /\ Adds(sent') = <<>>
             /\ Cancels(sent') = <<>>
             /\ UNCHANGED <<open_bonds, open_adrs, open_etfs, adr_count, etf_count>>
             /\ IF data'.symbol = "VALBZ"
                THEN UNCHANGED ind_count
                ELSE /\ UNCHANGED adr_z_count
                     /\ ind_count' = [ind_count EXCEPT ![IndexOf(data'.symbol)] =
                                         @ - Signed(data')]]_vars

\* a SELL hedge on MS has just been filled after a BUY fill of XLF
C21_Witness ==
    /\ data.type = "fill"
    /\ hit = "etf"
    /\ data.symbol = "MS"
    /\ data.dir = "SELL"
    /\ ind_count = <<0, 3, 0>>
    /\ etf_count = 10
    /\ sent = <<>>

--------------------------------------------------------------------------
(* C22 *)

\* the window the bot keeps for an instrument
WindowOf(symbol) == IF symbol = "VALBZ" THEN adr_queue ELSE etf_queues[symbol]

\* an average of the instrument's window has been computed
Averaged(symbol) ==
    IF symbol = "VALBZ" THEN adr_price # Unset ELSE symbol \in DOMAIN etf_prices

\* C22: each of the four windows holds at most 10 prices, the most recent
\* trade prices of its instrument in arrival order (the oldest evicted
\* first), and an average exists only for a window that is not empty
C22_WindowsHoldLatest ==
    \A c \in {"VALBZ"} \cup ComponentSet :
        /\ Len(WindowOf(c)) <= 10
        /\ WindowOf(c) = LastTen(c)
        /\ Averaged(c) => WindowOf(c) # <<>>

\* eleven VALBZ trades have been read, the first at 510 and the others at
\* 500: the window holds the ten trades at 500 and the estimate is 500
C22_Witness ==
    /\ Len(seen["VALBZ"]) = 11
    /\ seen["VALBZ"][1] = 510
    /\ \A i \in 2..11 : seen["VALBZ"][i] = 500
    /\ Len(adr_queue) = 10
    /\ adr_price = 500

--------------------------------------------------------------------------
(* C23 *)

\* C23: open_bonds, open_adrs, open_etfs and the keys of open_adr_converts
\* are pairwise disjoint, so the id of a fill or out event is in at most one
\* of the collections the three handlers look it up in
C23_CollectionsDisjoint ==
    /\ open_bonds \cap open_adrs = {}
    /\ open_bonds \cap open_etfs = {}
    /\ open_bonds \cap DOMAIN open_adr_converts = {}
    /\ open_adrs \cap open_etfs = {}
    /\ open_adrs \cap DOMAIN open_adr_converts = {}
    /\ open_etfs \cap DOMAIN open_adr_converts = {}

\* all four collections hold ids, and a VALE order was placed after the
\* conversion
C23_Witness ==
    /\ open_bonds # {}
    /\ open_etfs # {}
    /\ DOMAIN open_adr_converts # {}
    /\ \E id \in open_adrs : \A k \in DOMAIN open_adr_converts : k < id

--------------------------------------------------------------------------
(* C24 *)

\* C24: while open_adrs is not empty adr_price and adr_order_price are
\* assigned, and while open_etfs is not empty xlf_price, etf_order_price and
\* the estimates of all three components are assigned; no handler reads a
\* price attribute that was never set (such a read raises)
C24_PricesSetWhileOpen ==
    /\ open_adrs # {} => adr_price # Unset /\ adr_order_price # Unset
    /\ open_etfs # {} => /\ xlf_price # Unset
                         /\ etf_order_price # Unset
                         /\ DOMAIN etf_prices = ComponentSet
    /\ pc # "crashed"

\* a fill of XLF has just been hedged at prices read from etf_prices, while
\* the ADR module has no order out and its prices are still unset
C24_Witness ==
    /\ data.type = "fill"
    /\ hit = "etf"
    /\ data.symbol = "XLF"
    /\ Len(Adds(sent)) = 4
    /\ etf_order_price # Unset
    /\ open_adrs = {}
    /\ adr_price = Unset
    /\ adr_order_price = Unset

--------------------------------------------------------------------------
(* C25 *)

\* C25: after every VALBZ trade |adr_price - adr_order_price| < 5, and after
\* every GS / MS / WFC trade, once all three components have an estimate,
\* |xlf_price - etf_order_price| < 10
C25_BasisWithinBand ==
    [][data'.type = "trade"
          => /\ data'.symbol = "VALBZ" => Abs(adr_price' - adr_order_price') < 5
             /\ (data'.symbol \in ComponentSet /\ DOMAIN etf_prices' = ComponentSet)
                   => Abs(xlf_price' - etf_order_price') < 10]_vars

\* a GS trade moved the composite away from the basis of the last quote, by
\* less than the band: nothing was sent
C25_Witness ==
    /\ data.type = "trade"
    /\ data.symbol = "GS"
    /\ open_etfs # {}
    /\ sent = <<>>
    /\ xlf_price # etf_order_price
    /\ Abs(xlf_price - etf_order_price) < 10
    /\ Cardinality(open_etfs) >= 4

--------------------------------------------------------------------------
(* C26 *)

\* the id is that of an add of the ADR or ETF module that the exchange has
\* received and not reported closed
LiveAdd(id) ==
    /\ id \in DOMAIN book
    /\ book[id].type = "add"
    /\ book[id].symbol \in {"VALE", "VALBZ", "XLF"} \cup ComponentSet
    /\ id \notin outed

\* C26: every cancel sent targets an id under which the ADR or the ETF
\* module has sent an add before and whose out has not been processed; no
\* cancel targets the id of a bond order or the id of a conversion
C26_CancelTargetsLiveAdd ==
    [][\A i \in 1..Len(Cancels(sent')) :
          /\ LiveAdd(Cancels(sent')[i].order_id)
          /\ Cancels(sent')[i].order_id \notin open_bonds
          /\ Cancels(sent')[i].order_id \notin converted]_vars

==========================================================================
